---- MODULE Spec2Model ----
(***************************************************************************)
(* Request resolution of the meteoblue dataset client                      *)
(* (src/mbdataset/client.py): Client._fetch (retrying transport),          *)
(* Client._runOnJobQueue (submit, poll, fetch) and Client.query /          *)
(* Client.asProtobuf (direct attempt, escalation to the job queue).        *)
(*                                                                         *)
(* One step of the model is the code a call runs between two suspension    *)
(* points: awaiting an HTTP response, asyncio.sleep(1), asyncio.sleep(5)   *)
(* and the yield of a response to the caller's with-body.                  *)
(***************************************************************************)
EXTENDS Integers, Sequences, FiniteSets, TLC

\* ------------------------------------------------------------------------
\* Program constants
\* ------------------------------------------------------------------------

\* ClientConfig.httpMaxRetryCount
httpMaxRetryCount == 5

\* the message Client.query compares error.message with
Sentinel == "This job must be executed on a job-queue"

\* the message of the ApiError raised for status 'deleted'
Canceled == "Job was canceled"

\* ClientConfig.apikey
apikey == "key"

\* ------------------------------------------------------------------------
\* Bounds of the model
\* ------------------------------------------------------------------------

\* the server answers at most MaxPolls non-terminal job statuses per run
MaxPolls == 2

\* with concurrent calls the server answers at most MaxConcRetries retryable
\* statuses per send
MaxConcRetries == 1

\* the calls of query / asProtobuf and the params dicts of the callers
Calls == {"c1", "c2"}
Objs == {"o1", "o2"}

\* the call made when a single resolution is looked at
OneCall == {"c1"}

\* each caller passes a dict of its own
OwnObj(c) == IF c = "c1" THEN "o1" ELSE "o2"

\* a JSON field that the body of a response does not have
Missing == "<missing>"

\* HTTP statuses the server answers: the edges of every class _fetch tests
Statuses == {200, 299, 300, 400, 404, 408, 500, 599}

\* error_message values, job ids and job statuses the server answers
Messages == {Sentinel, "Invalid query", Canceled}
JobIds == {"41", "42"}
Terminal == {"finished", "deleted", "error"}
NonTerminal == {"pending", "running"}

\* the query params a caller passes: runOnJobQueue = FALSE stands for the
\* key being absent from the dict
ParamsSet == [q : {"q1", "q2"}, format : {"json", "protobuf"}, runOnJobQueue : BOOLEAN]

Params1 == [q |-> "q1", format |-> "json", runOnJobQueue |-> FALSE]
Params2 == [q |-> "q2", format |-> "json", runOnJobQueue |-> FALSE]

\* json=None / json=params of session.request
None == << >>
Some(p) == << p >>

VARIABLES
    pc,         \* pc[c]: where call c is suspended
    phase,      \* phase[c]: the send in progress: direct, submit, poll, fetch
    heap,       \* heap[o]: the params dict object o of the caller
    pobj,       \* pobj[c]: the params object call c was given
    orig,       \* orig[c]: the value of params when query was entered
    session,    \* session[c]: the aiohttp.ClientSession of the call
    openResp,   \* openResp[c]: responses entered with async with, not yet left
    req,        \* req[c]: the request of the current attempt
    resp,       \* resp[c]: the last response received
    jobId,      \* jobId[c]: responseJson['id'] of the submit
    result,     \* result[c]: what the call yields or raises
    sends,      \* sends[c]: the sends (calls of _fetch with retryCount 0) started
    sendLog,    \* sendLog[c]: the requests issued by the current send
    delays,     \* delays[c]: asyncio.sleep(1) completed in the current send
    pollSleeps, \* pollSleeps[c]: asyncio.sleep(5) completed in the run
    statuses,   \* statuses[c]: json['status'] of the polls of the run
    runs,       \* runs[c]: calls of _runOnJobQueue
    answered,   \* answered[c]: 408 and 5xx responses to the current send
    spent       \* spent[c]: an earlier send of the call used all its retries

vars == << pc, phase, heap, pobj, orig, session, openResp, req, resp, jobId,
           result, sends, sendLog, delays, pollSleeps, statuses, runs,
           answered, spent >>

\* ------------------------------------------------------------------------
\* URLs and requests
\* ------------------------------------------------------------------------

\* self._config.queryUrl % self._config.apikey
queryUrl == [ep |-> "query", key |-> apikey]

\* self._config.statusUrl % str(jobId)
statusUrl(id) == [ep |-> "status", key |-> id]

\* self._config.resultUrl % jobId
resultUrl(id) == [ep |-> "result", key |-> id]

NoUrl == [ep |-> "none", key |-> ""]

\* the arguments of one call of _fetch
Request(method, url, retryCount, json) ==
    [method |-> method, url |-> url, retryCount |-> retryCount, json |-> json]

NoRequest == Request("", NoUrl, 0, None)

\* a response: HTTP status and the JSON fields the client reads
Response(status, error_message, id, jstatus) ==
    [status |-> status, error_message |-> error_message, id |-> id, jstatus |-> jstatus]

NoResponse == Response(0, Missing, Missing, Missing)

\* the outcome of a call: the response it yields or the exception it raises
NoResult == [kind |-> "none", message |-> "", url |-> NoUrl, retryCount |-> 0]
Ok(rq) == [kind |-> "ok", message |-> "", url |-> rq.url, retryCount |-> rq.retryCount]
Raise(kind, message) == [kind |-> kind, message |-> message, url |-> NoUrl, retryCount |-> 0]

\* ------------------------------------------------------------------------
\* Client._fetch: classification of a response
\* ------------------------------------------------------------------------

\* variant: the lower edge of the range is left out
IsSuccessStrict(status) == 200 < status /\ status <= 299

\* if 200 <= response.status <= 299
IsSuccess(status) == 200 <= status /\ status <= 299

\* variant: the retry count is not tested
shouldRetryAlways(retryCount) == TRUE

\* variant: the test lets one retry too many through
shouldRetryInclusive(retryCount) == retryCount <= httpMaxRetryCount

\* shouldRetry = retryCount < self._config.httpMaxRetryCount
shouldRetry(retryCount) == retryCount < httpMaxRetryCount

\* variant: the request timeout 408 is not retried
IsRetryableNo408(status) == 500 <= status /\ status <= 599

\* variant: every 4xx and 5xx status is retried
IsRetryableWith400(status) == status = 408 \/ (400 <= status /\ status <= 599)

\* response.status == 408 or 500 <= response.status <= 599
IsRetryable(status) == status = 408 \/ (500 <= status /\ status <= 599)

\* self._fetch(session, method, url, retryCount + 1): json is not passed on
RetryRequest(rq) == Request(rq.method, rq.url, rq.retryCount + 1, None)

\* variant: only the response of the innermost _fetch is released
ReleaseInnermost(open) == IF open > 0 THEN open - 1 ELSE 0

\* leaving the async with blocks of a send (normally or by an exception)
\* releases every response of its retry chain
Release(open) == 0

\* variant: the try block of query also covers the run on the job queue
CaughtByQueryAlways(ph) == TRUE

\* Client.query: the try ... except ApiError covers the direct send only;
\* _runOnJobQueue is called in the except clause
CaughtByQuery(ph) == ph = "direct"

\* variant: the params are kept in one place for all the calls
ParamsRefShared(c) == "o1"

\* the dict that the parameter params of the call refers to
ParamsRef(c) == pobj[c]

\* variant: the job id is kept in an attribute of the Client
JobIdShared(c) == jobId[CHOOSE d \in Calls : jobId[d] # Missing]

\* the local variable jobId of the run of _runOnJobQueue
JobIdOf(c) == jobId[c]

\* variant: dict.get, a missing key is no error
KeyMissingNever(v) == FALSE

\* responseJson['id'], json['status'], json["error_message"]: KeyError
KeyMissing(v) == v = Missing

\* variant: every ApiError of the direct send is run on the job queue
MustRunOnJobQueueAlways(message) == TRUE

\* variant: the comparison is inverted
MustRunOnJobQueueInverted(message) == message # Sentinel

\* Client.query: error.message != "This job must be executed on a job-queue"
MustRunOnJobQueue(message) == message = Sentinel

\* variant: a running job is taken for a finished one
PollStepBreakEarly(jstatus) ==
    CASE jstatus \in {"finished", "running"} -> "break"
      [] jstatus = "deleted" -> "canceled"
      [] jstatus = "error" -> "error"
      [] OTHER -> "sleep"

\* variant: the loop sleeps once more before it leaves on 'finished'
PollStepSleepOnFinished(jstatus) ==
    CASE jstatus = "deleted" -> "canceled"
      [] jstatus = "error" -> "error"
      [] OTHER -> "sleep"

\* variant: a status the loop does not know ends the run
PollStepGiveUp(jstatus) ==
    CASE jstatus = "finished" -> "break"
      [] jstatus = "error" -> "error"
      [] OTHER -> "canceled"

\* variant: the status 'deleted' is not tested
PollStepIgnoreDeleted(jstatus) ==
    CASE jstatus = "finished" -> "break"
      [] jstatus = "error" -> "error"
      [] OTHER -> "sleep"

\* Client._runOnJobQueue: what the poll loop does with json['status']
PollStep(jstatus) ==
    CASE jstatus = "finished" -> "break"
      [] jstatus = "deleted" -> "canceled"
      [] jstatus = "error" -> "error"
      [] OTHER -> "sleep"

\* ------------------------------------------------------------------------
\* The server
\* ------------------------------------------------------------------------

\* the JSON bodies the server may answer; only the fields the client reads
\* in the phase are varied
Bodies(ph, status) ==
    IF status = 400
    THEN { Response(status, m, Missing, Missing) : m \in Messages \cup {Missing} }
    ELSE IF ph = "submit" /\ status \in 200..299
    THEN { Response(status, Missing, i, Missing) : i \in JobIds \cup {Missing} }
    ELSE IF ph = "poll" /\ status \in 200..299
    THEN { Response(status, Missing, Missing, s) :
             s \in (Terminal \ {"error"}) \cup NonTerminal \cup {Missing} }
         \cup { Response(status, m, Missing, "error") :
                  m \in {"Out of memory", Sentinel, Missing} }
    ELSE { Response(status, Missing, Missing, Missing) }

Answers(ph) == UNION { Bodies(ph, s) : s \in Statuses }

\* ------------------------------------------------------------------------
\* Initial states: no call has been made yet
\* ------------------------------------------------------------------------

\* the calls in made will be made, each with its own dict; h holds the dicts
InitWith(made, h) ==
    /\ pc = [c \in Calls |-> IF c \in made THEN "idle" ELSE "unused"]
    /\ phase = [c \in Calls |-> "none"]
    /\ heap = h
    /\ pobj = [c \in Calls |-> OwnObj(c)]
    /\ orig = [c \in Calls |-> h[OwnObj(c)]]
    /\ session = [c \in Calls |-> "none"]
    /\ openResp = [c \in Calls |-> 0]
    /\ req = [c \in Calls |-> NoRequest]
    /\ resp = [c \in Calls |-> NoResponse]
    /\ jobId = [c \in Calls |-> Missing]
    /\ result = [c \in Calls |-> NoResult]
    /\ sends = [c \in Calls |-> << >>]
    /\ sendLog = [c \in Calls |-> << >>]
    /\ delays = [c \in Calls |-> 0]
    /\ pollSleeps = [c \in Calls |-> 0]
    /\ statuses = [c \in Calls |-> << >>]
    /\ runs = [c \in Calls |-> 0]
    /\ answered = [c \in Calls |-> 0]
    /\ spent = [c \in Calls |-> FALSE]

\* one call, with any params
Init ==
    \E p \in { x \in ParamsSet : x.q = "q1" } :
        InitWith(OneCall, [o \in Objs |-> IF o = "o1" THEN p ELSE Params2])

\* one call, with given params
InitFair == InitWith(OneCall, [o \in Objs |-> IF o = "o1" THEN Params1 ELSE Params2])

\* two calls on one Client, in any interleaving
InitConc == InitWith(Calls, [o \in Objs |-> IF o = "o1" THEN Params1 ELSE Params2])

\* ------------------------------------------------------------------------
\* Building blocks of the actions
\* ------------------------------------------------------------------------

\* variant: the retry count is kept from one send to the next
StartSendCarry(c, ph, method, url, json) ==
    /\ pc' = [pc EXCEPT ![c] = "await"]
    /\ phase' = [phase EXCEPT ![c] = ph]
    /\ req' = [req EXCEPT ![c] = Request(method, url, req[c].retryCount, json)]
    /\ sends' = [sends EXCEPT ![c] = Append(@, ph)]
    /\ sendLog' = [sendLog EXCEPT ![c] =
                      << Request(method, url, req[c].retryCount, json) >>]
    /\ delays' = [delays EXCEPT ![c] = 0]
    /\ answered' = [answered EXCEPT ![c] = 0]
    /\ spent' = [spent EXCEPT ![c] = @ \/ req[c].retryCount = httpMaxRetryCount]

\* a new send: _fetch(session, method, url, json=json) with retryCount = 0
StartSend(c, ph, method, url, json) ==
    /\ pc' = [pc EXCEPT ![c] = "await"]
    /\ phase' = [phase EXCEPT ![c] = ph]
    /\ req' = [req EXCEPT ![c] = Request(method, url, 0, json)]
    /\ sends' = [sends EXCEPT ![c] = Append(@, ph)]
    /\ sendLog' = [sendLog EXCEPT ![c] = << Request(method, url, 0, json) >>]
    /\ delays' = [delays EXCEPT ![c] = 0]
    /\ answered' = [answered EXCEPT ![c] = 0]
    /\ spent' = [spent EXCEPT ![c] = @ \/ req[c].retryCount = httpMaxRetryCount]

\* an exception leaves query: every async with block is left on the way
Fail(c, exc, open) ==
    /\ pc' = [pc EXCEPT ![c] = "done"]
    /\ result' = [result EXCEPT ![c] = exc]
    /\ openResp' = [openResp EXCEPT ![c] = Release(open)]
    /\ session' = [session EXCEPT ![c] = "closed"]
    /\ UNCHANGED << phase, req, sends, sendLog, delays, spent >>

\* the server has answered r to the current send, which goes on or ends here
Seen(c, r) ==
    answered' = [answered EXCEPT ![c] =
                    IF r.status = 408 \/ r.status \in 500..599 THEN @ + 1 ELSE @]

\* ------------------------------------------------------------------------
\* Actions
\* ------------------------------------------------------------------------

\* Client.query(params): open the session, send the direct request
Query(c) ==
    /\ pc[c] = "idle"
    /\ session' = [session EXCEPT ![c] = "open"]
    /\ orig' = [orig EXCEPT ![c] = heap[ParamsRef(c)]]
    /\ StartSend(c, "direct", "POST", queryUrl, Some(heap[ParamsRef(c)]))
    /\ UNCHANGED << heap, pobj, openResp, resp, jobId, result, pollSleeps,
                    statuses, runs >>

\* Client.asProtobuf(params): params['format'] = 'protobuf', then query
AsProtobuf(c) ==
    /\ pc[c] = "idle"
    /\ heap' = [heap EXCEPT ![ParamsRef(c)].format = "protobuf"]
    /\ session' = [session EXCEPT ![c] = "open"]
    /\ orig' = [orig EXCEPT ![c] = heap'[ParamsRef(c)]]
    /\ StartSend(c, "direct", "POST", queryUrl, Some(heap'[ParamsRef(c)]))
    /\ UNCHANGED << pobj, openResp, resp, jobId, result, pollSleeps,
                    statuses, runs >>

\* the request raises before a response arrives (aiohttp.ClientError)
RequestFails(c) ==
    /\ pc[c] = "await"
    /\ Fail(c, Raise("ClientError", ""), openResp[c])
    /\ UNCHANGED << heap, pobj, orig, resp, jobId, pollSleeps, statuses, runs,
                    answered >>

\* _fetch, status 2xx: yield response; what follows depends on who called _fetch
RespondSuccess(c, r) ==
    /\ pc[c] = "await"
    /\ r \in Answers(phase[c])
    /\ IsSuccess(r.status)
    /\ (phase[c] = "poll" /\ r.jstatus \in NonTerminal) => Len(statuses[c]) < MaxPolls
    /\ resp' = [resp EXCEPT ![c] = r]
    /\ CASE phase[c] \in {"direct", "fetch"} ->
            \* query: yield response to the caller
            /\ pc' = [pc EXCEPT ![c] = "yielded"]
            /\ result' = [result EXCEPT ![c] = Ok(req[c])]
            /\ openResp' = [openResp EXCEPT ![c] = @ + 1]
            /\ Seen(c, r)
            /\ UNCHANGED << phase, req, sends, sendLog, delays, session, jobId,
                            statuses, spent >>
         [] phase[c] = "submit" ->
            \* responseJson = await response.json(); jobId = responseJson['id']
            IF KeyMissing(r.id)
            THEN /\ Fail(c, Raise("KeyError", "id"), openResp[c] + 1)
                 /\ Seen(c, r)
                 /\ UNCHANGED << jobId, statuses >>
            ELSE /\ jobId' = [jobId EXCEPT ![c] = r.id]
                 /\ openResp' = [openResp EXCEPT ![c] = Release(@ + 1)]
                 /\ StartSend(c, "poll", "GET", statusUrl(r.id), None)
                 /\ UNCHANGED << session, result, statuses >>
         [] phase[c] = "poll" ->
            \* json = await response.json(); status = json['status']
            IF KeyMissing(r.jstatus)
            THEN /\ Fail(c, Raise("KeyError", "status"), openResp[c] + 1)
                 /\ Seen(c, r)
                 /\ UNCHANGED << jobId, statuses >>
            ELSE /\ statuses' = [statuses EXCEPT ![c] = Append(@, r.jstatus)]
                 /\ UNCHANGED jobId
                 /\ CASE PollStep(r.jstatus) = "break" ->
                         /\ openResp' = [openResp EXCEPT ![c] = Release(@ + 1)]
                         /\ StartSend(c, "fetch", "GET", resultUrl(JobIdOf(c)), None)
                         /\ UNCHANGED << session, result >>
                      [] PollStep(r.jstatus) = "canceled" ->
                         /\ Fail(c, Raise("ApiError", Canceled), openResp[c] + 1)
                         /\ Seen(c, r)
                      [] PollStep(r.jstatus) = "error" ->
                         /\ Seen(c, r)
                         /\ IF KeyMissing(r.error_message)
                            THEN Fail(c, Raise("KeyError", "error_message"), openResp[c] + 1)
                            ELSE Fail(c, Raise("ApiError", r.error_message), openResp[c] + 1)
                      [] OTHER ->
                         \* await asyncio.sleep(5)
                         /\ pc' = [pc EXCEPT ![c] = "pollsleep"]
                         /\ openResp' = [openResp EXCEPT ![c] = Release(@ + 1)]
                         /\ Seen(c, r)
                         /\ UNCHANGED << phase, req, sends, sendLog, delays,
                                         session, result, spent >>
    /\ UNCHANGED << heap, pobj, orig, pollSleeps, runs >>

\* _fetch, status 408 or 5xx and retries left: await asyncio.sleep(1)
RespondRetry(c, r) ==
    /\ pc[c] = "await"
    /\ r \in Answers(phase[c])
    /\ ~IsSuccess(r.status)
    /\ shouldRetry(req[c].retryCount) /\ IsRetryable(r.status)
    /\ resp' = [resp EXCEPT ![c] = r]
    /\ pc' = [pc EXCEPT ![c] = "backoff"]
    /\ openResp' = [openResp EXCEPT ![c] = @ + 1]
    /\ Seen(c, r)
    /\ UNCHANGED << phase, heap, pobj, orig, session, req, jobId, result, sends,
                    sendLog, delays, pollSleeps, statuses, runs, spent >>

\* the sleep of one second is over: the nested _fetch issues the next request
Retry(c) ==
    /\ pc[c] = "backoff"
    /\ pc' = [pc EXCEPT ![c] = "await"]
    /\ req' = [req EXCEPT ![c] = RetryRequest(@)]
    /\ sendLog' = [sendLog EXCEPT ![c] = Append(@, RetryRequest(req[c]))]
    /\ delays' = [delays EXCEPT ![c] = @ + 1]
    /\ UNCHANGED << phase, heap, pobj, orig, session, openResp, resp, jobId,
                    result, sends, pollSleeps, statuses, runs, answered, spent >>

\* _fetch, status 400: raise ApiError(json["error_message"]); query catches
\* the ApiError of its direct send and runs _runOnJobQueue on the sentinel
RespondApiError(c, r) ==
    /\ pc[c] = "await"
    /\ r \in Answers(phase[c])
    /\ ~IsSuccess(r.status)
    /\ ~(shouldRetry(req[c].retryCount) /\ IsRetryable(r.status))
    /\ r.status = 400
    /\ resp' = [resp EXCEPT ![c] = r]
    /\ IF KeyMissing(r.error_message)
       THEN /\ Fail(c, Raise("KeyError", "error_message"), openResp[c] + 1)
            /\ Seen(c, r)
            /\ UNCHANGED << heap, runs >>
       ELSE IF CaughtByQuery(phase[c]) /\ MustRunOnJobQueue(r.error_message)
       THEN \* params["runOnJobQueue"] = True; POST params to the query url
            /\ heap' = [heap EXCEPT ![ParamsRef(c)].runOnJobQueue = TRUE]
            /\ runs' = [runs EXCEPT ![c] = @ + 1]
            /\ openResp' = [openResp EXCEPT ![c] = Release(@ + 1)]
            /\ StartSend(c, "submit", "POST", queryUrl, Some(heap'[ParamsRef(c)]))
            /\ UNCHANGED << session, result >>
       ELSE /\ Fail(c, Raise("ApiError", r.error_message), openResp[c] + 1)
            /\ Seen(c, r)
            /\ UNCHANGED << heap, runs >>
    /\ UNCHANGED << pobj, orig, jobId, pollSleeps, statuses >>

\* _fetch, any other status or no retry left: raise Exception
RespondUnexpected(c, r) ==
    /\ pc[c] = "await"
    /\ r \in Answers(phase[c])
    /\ ~IsSuccess(r.status)
    /\ ~(shouldRetry(req[c].retryCount) /\ IsRetryable(r.status))
    /\ r.status # 400
    /\ resp' = [resp EXCEPT ![c] = r]
    /\ Fail(c, Raise("Exception", "API returned unexpected error"), openResp[c] + 1)
    /\ Seen(c, r)
    /\ UNCHANGED << heap, pobj, orig, jobId, pollSleeps, statuses, runs >>

\* the sleep of five seconds is over: the loop polls the status again
PollAgain(c) ==
    /\ pc[c] = "pollsleep"
    /\ pollSleeps' = [pollSleeps EXCEPT ![c] = @ + 1]
    /\ StartSend(c, "poll", "GET", statusUrl(JobIdOf(c)), None)
    /\ UNCHANGED << heap, pobj, orig, session, openResp, resp, jobId, result,
                    statuses, runs >>

\* the caller's with-body is over (it is taken to end without an exception):
\* query and the _fetch generators resume, leave their async with blocks and
\* the session is closed
Exit(c) ==
    /\ pc[c] = "yielded"
    /\ pc' = [pc EXCEPT ![c] = "done"]
    /\ openResp' = [openResp EXCEPT ![c] = Release(@)]
    /\ session' = [session EXCEPT ![c] = "closed"]
    /\ UNCHANGED << phase, heap, pobj, orig, req, resp, jobId, result, sends,
                    sendLog, delays, pollSleeps, statuses, runs, answered, spent >>

Next ==
    \E c \in Calls :
        \/ Query(c)
        \/ AsProtobuf(c)
        \/ RequestFails(c)
        \/ \E r \in Answers(phase[c]) : RespondSuccess(c, r)
        \/ \E r \in Answers(phase[c]) : RespondRetry(c, r)
        \/ \E r \in Answers(phase[c]) : RespondApiError(c, r)
        \/ \E r \in Answers(phase[c]) : RespondUnexpected(c, r)
        \/ Retry(c)
        \/ PollAgain(c)
        \/ Exit(c)

Spec == Init /\ [][Next]_vars

\* the request of call c ends: a response arrives or the request raises
\* (aiohttp gives every request a total timeout)
Responds(c) ==
    \/ RequestFails(c)
    \/ \E r \in Answers(phase[c]) :
          \/ RespondSuccess(c, r)
          \/ RespondRetry(c, r)
          \/ RespondApiError(c, r)
          \/ RespondUnexpected(c, r)

\* the event loop resumes a call whose sleep is over or whose request has
\* ended; nothing is assumed of the callers
Fairness ==
    \A c \in OneCall :
        /\ WF_vars(Responds(c))
        /\ WF_vars(Retry(c))
        /\ WF_vars(PollAgain(c))

FairSpec == InitFair /\ [][Next]_vars /\ Fairness

\* the answers of the server to a send of one of several concurrent calls:
\* one status of each class
ConcAnswers(c) ==
    { r \in Answers(phase[c]) :
        /\ r.status \in {200, 400, 404, 500}
        /\ r.status = 500 => answered[c] < MaxConcRetries
        /\ r.status = 400 => r.error_message = Sentinel
        /\ (phase[c] = "submit" /\ r.status = 200) => r.id # Missing
        /\ (phase[c] = "poll" /\ r.status = 200) =>
              r.jstatus \in {"pending", "finished", "deleted"} }

NextConc ==
    \E c \in Calls :
        \/ Query(c)
        \/ AsProtobuf(c)
        \/ RequestFails(c)
        \/ \E r \in ConcAnswers(c) : RespondSuccess(c, r)
        \/ \E r \in ConcAnswers(c) : RespondRetry(c, r)
        \/ \E r \in ConcAnswers(c) : RespondApiError(c, r)
        \/ \E r \in ConcAnswers(c) : RespondUnexpected(c, r)
        \/ Retry(c)
        \/ PollAgain(c)
        \/ Exit(c)

SpecConc == InitConc /\ [][NextConc]_vars

\* ------------------------------------------------------------------------
\* Properties
\* ------------------------------------------------------------------------

\* call c has taken the step
Stepped(c) == pc'[c] # pc[c] \/ sends'[c] # sends[c]

\* the step is the arrival of a response to the request of call c
Answered(c) == pc[c] = "await" /\ Stepped(c) /\ result'[c].kind # "ClientError"

\* status 408 or 500..599
Transient(status) == status = 408 \/ status \in 500..599

Last(seq) == seq[Len(seq)]

Count(seq, x) == Cardinality({ i \in DOMAIN seq : seq[i] = x })

C1_Inv(c) ==
    /\ Len(sendLog[c]) <= httpMaxRetryCount + 1
    /\ \A i \in DOMAIN sendLog[c] : sendLog[c][i].retryCount = i - 1
    /\ (pc[c] = "yielded") =>
          /\ answered[c] <= httpMaxRetryCount
          /\ delays[c] = answered[c]
          /\ Len(sendLog[c]) = answered[c] + 1
          /\ result[c].retryCount = answered[c]

C1_Act(c) ==
    /\ (Answered(c) /\ Transient(resp'[c].status)
            /\ req[c].retryCount < httpMaxRetryCount) =>
          /\ pc'[c] = "backoff"
          /\ sendLog'[c] = sendLog[c]
          /\ delays'[c] = delays[c]
    /\ (pc[c] = "backoff" /\ Stepped(c)) =>
          /\ pc'[c] = "await"
          /\ req'[c].retryCount = req[c].retryCount + 1
          /\ sendLog'[c] = Append(sendLog[c], req'[c])
          /\ delays'[c] = delays[c] + 1
    /\ (Answered(c) /\ Transient(resp'[c].status)
            /\ req[c].retryCount = httpMaxRetryCount) =>
          /\ pc'[c] = "done"
          /\ result'[c].kind = "Exception"
          /\ sendLog'[c] = sendLog[c]
          /\ delays'[c] = delays[c]
    /\ (Answered(c) /\ resp'[c].status \in 200..299) =>
          /\ delays[c] = answered[c]
          /\ Len(sendLog[c]) = answered[c] + 1

\* C1: a 408 or 5xx response to attempt a < httpMaxRetryCount is followed by
\* one sleep of a second and then exactly one further request, of attempt
\* a + 1; at a = httpMaxRetryCount no request follows and the send fails;
\* a send issues at most httpMaxRetryCount + 1 requests, and k such
\* responses followed by a 2xx response give success after k retries and
\* k delays.
C1_Retry ==
    /\ [](\A c \in Calls : C1_Inv(c))
    /\ [][\A c \in Calls : C1_Act(c)]_vars

\* a send succeeds on its last attempt, after httpMaxRetryCount retries
C1_Witness ==
    \E c \in Calls :
        /\ pc[c] = "yielded"
        /\ answered[c] = httpMaxRetryCount
        /\ delays[c] = httpMaxRetryCount

\* C2: all the requests of one send have the method, the url and the JSON
\* body of its first request.
C2_SameRequest ==
    \A c \in Calls : \A i \in DOMAIN sendLog[c] :
        /\ sendLog[c][i].method = sendLog[c][1].method
        /\ sendLog[c][i].url = sendLog[c][1].url
        /\ sendLog[c][i].json = sendLog[c][1].json

\* a call that has ended does nothing more
Ended(c) ==
    pc[c] = "done" =>
        /\ pc'[c] = "done"
        /\ sends'[c] = sends[c]
        /\ sendLog'[c] = sendLog[c]
        /\ result'[c] = result[c]

C3_Inv(c) ==
    /\ runs[c] <= 1
    /\ runs[c] = Count(sends[c], "submit")
    /\ phase[c] = "submit" =>
          sendLog[c][1] = Request("POST", queryUrl, 0,
                                  Some([orig[c] EXCEPT !.runOnJobQueue = TRUE]))
    /\ (pc[c] = "done" /\ phase[c] = "direct" /\ result[c].kind = "ApiError") =>
          /\ runs[c] = 0
          /\ result[c].message # Sentinel
          /\ result[c].message = resp[c].error_message

C3_Act(c) ==
    /\ runs'[c] # runs[c] =>
          /\ phase[c] = "direct" /\ Answered(c)
          /\ resp'[c].status = 400 /\ resp'[c].error_message = Sentinel
    /\ (phase[c] = "direct" /\ Answered(c) /\ resp'[c].status = 400
            /\ resp'[c].error_message = Sentinel) =>
          /\ runs'[c] = runs[c] + 1
          /\ phase'[c] = "submit"
    /\ (Answered(c) /\ resp'[c].status = 400
            /\ resp'[c].error_message \notin {Sentinel, Missing}) =>
          /\ runs'[c] = runs[c]
          /\ pc'[c] = "done"
          /\ result'[c] = Raise("ApiError", resp'[c].error_message)

\* C3: the direct send failing with ApiError(Sentinel) starts exactly one
\* run of _runOnJobQueue, whose submit send is called with the original
\* params plus runOnJobQueue = TRUE as its body (the requests of its
\* retries are C2's); an ApiError with another message starts no run and
\* is raised to the caller; no resolution has two runs, also when a send of
\* the run fails with ApiError(Sentinel).
C3_Escalation ==
    /\ [](\A c \in Calls : C3_Inv(c))
    /\ [][\A c \in Calls : C3_Act(c)]_vars

\* the fetch of a run has failed with the sentinel ApiError
C3_Witness ==
    \E c \in Calls :
        /\ pc[c] = "done" /\ phase[c] = "fetch" /\ runs[c] = 1
        /\ result[c] = Raise("ApiError", Sentinel)

C4_Inv(c) ==
    (pc[c] = "done" /\ phase[c] = "direct" /\ result[c].kind # "ok") =>
        /\ sends[c] = << "direct" >>
        /\ runs[c] = 0
        /\ jobId[c] = Missing
        /\ statuses[c] = << >>
        /\ pollSleeps[c] = 0

C4_Act(c) ==
    /\ Ended(c)
    /\ (phase[c] = "direct" /\ Answered(c)
            /\ resp'[c].status \notin 200..299
            /\ ~(Transient(resp'[c].status) /\ req[c].retryCount < httpMaxRetryCount)
            /\ ~(resp'[c].status = 400 /\ resp'[c].error_message = Sentinel)) =>
          /\ pc'[c] = "done"
          /\ sends'[c] = sends[c]
          /\ sendLog'[c] = sendLog[c]
          /\ result'[c] =
                IF resp'[c].status # 400
                THEN Raise("Exception", "API returned unexpected error")
                ELSE IF resp'[c].error_message = Missing
                THEN Raise("KeyError", "error_message")
                ELSE Raise("ApiError", resp'[c].error_message)

\* C4: a direct send that fails with anything but ApiError(Sentinel) ends
\* the call with that error; no submit, poll or fetch request is issued.
C4_NoFallback ==
    /\ [](\A c \in Calls : C4_Inv(c))
    /\ [][\A c \in Calls : C4_Act(c)]_vars

\* the direct send has run out of retries
C4_Witness ==
    \E c \in Calls :
        /\ pc[c] = "done" /\ phase[c] = "direct"
        /\ result[c].kind = "Exception"
        /\ answered[c] = httpMaxRetryCount + 1

C5_Act(c) ==
    (Answered(c) /\ resp'[c].status = 400 /\ resp'[c].error_message # Missing) =>
        /\ pc'[c] # "backoff"
        /\ IF phase[c] = "direct" /\ resp'[c].error_message = Sentinel
           THEN \* query has caught the ApiError of the send
                /\ phase'[c] = "submit"
                /\ Len(sendLog'[c]) = 1
           ELSE /\ pc'[c] = "done"
                /\ result'[c] = Raise("ApiError", resp'[c].error_message)
                /\ sendLog'[c] = sendLog[c]

\* C5: a 400 response with error_message X makes the send fail with
\* ApiError(X) at every attempt number; no request of the send follows it.
C5_NoRetryOn400 ==
    [][\A c \in Calls : C5_Act(c) /\ Ended(c)]_vars

\* a 400 answered to a retry, after 408 or 5xx responses
C5_Witness ==
    \E c \in Calls :
        /\ pc[c] = "done" /\ resp[c].status = 400
        /\ result[c].kind = "ApiError"
        /\ answered[c] >= 2

C6_Inv(c) ==
    \A i \in DOMAIN sends[c] :
        /\ (i = 1) <=> (sends[c][i] = "direct")
        /\ sends[c][i] = "submit" => i = 2
        /\ sends[c][i] = "poll" =>
              /\ i > 2
              /\ jobId[c] # Missing
              /\ \A k \in 1..i : sends[c][k] # "fetch"
        /\ sends[c][i] = "fetch" =>
              /\ i = Len(sends[c])
              /\ sends[c][i - 1] = "poll"
              /\ Len(statuses[c]) = Count(sends[c], "poll")
              /\ Last(statuses[c]) = "finished"

C6_Act(c) ==
    /\ (phase[c] = "submit" /\ phase'[c] # "submit") =>
          /\ phase'[c] = "poll"
          /\ Answered(c)
          /\ resp'[c].status \in 200..299
          /\ resp'[c].id # Missing
          /\ jobId'[c] = resp'[c].id
    /\ (phase[c] = "poll" /\ phase'[c] # "poll") =>
          /\ phase'[c] = "fetch"
          /\ Answered(c)
          /\ resp'[c].status \in 200..299
          /\ resp'[c].jstatus = "finished"
    /\ phase[c] = "fetch" => phase'[c] = "fetch"

\* C6: in a run no poll request is issued before the submit has returned a
\* 2xx response with a job id, the fetch request is issued only after a
\* poll has returned 'finished', and no poll follows the fetch.
C6_PhaseOrder ==
    /\ [](\A c \in Calls : C6_Inv(c))
    /\ [][\A c \in Calls : C6_Act(c)]_vars

\* the fetch is awaited after MaxPolls + 1 polls
C6_Witness ==
    \E c \in Calls :
        /\ phase[c] = "fetch" /\ pc[c] = "await"
        /\ Count(sends[c], "poll") = MaxPolls + 1

\* n non-terminal statuses followed by 'finished'
PendingThenFinished(seq) ==
    /\ seq # << >>
    /\ Last(seq) = "finished"
    /\ \A i \in 1..(Len(seq) - 1) : seq[i] \notin Terminal

\* C7: when the polls have returned n non-terminal statuses and then
\* 'finished', the run has made n + 1 polls and n sleeps of five seconds
\* and one fetch, it does not sleep after 'finished', and the response it
\* yields is the one of the fetch.
C7_PollCycles ==
    \A c \in Calls :
        PendingThenFinished(statuses[c]) =>
            /\ Count(sends[c], "poll") = Len(statuses[c])
            /\ pollSleeps[c] = Len(statuses[c]) - 1
            /\ Count(sends[c], "fetch") = 1
            /\ phase[c] = "fetch"
            /\ pc[c] # "pollsleep"
            /\ pc[c] = "yielded" =>
                  /\ result[c].kind = "ok"
                  /\ result[c].url = resultUrl(jobId[c])

\* the fetch response is yielded after MaxPolls sleeps
C7_Witness ==
    \E c \in Calls :
        /\ pc[c] = "yielded" /\ phase[c] = "fetch"
        /\ Len(statuses[c]) = MaxPolls + 1
        /\ pollSleeps[c] = MaxPolls

\* C8: a poll that returns 'deleted' ends the run with
\* ApiError("Job was canceled"), one that returns 'error' with
\* error_message Y ends it with ApiError(Y); no poll, sleep or fetch
\* follows, and only the last status polled is a terminal one.
C8_TerminalStatus ==
    \A c \in Calls :
        /\ \A i \in 1..(Len(statuses[c]) - 1) : statuses[c][i] \notin Terminal
        /\ (statuses[c] # << >> /\ Last(statuses[c]) \in {"deleted", "error"}) =>
              /\ pc[c] = "done"
              /\ phase[c] = "poll"
              /\ Count(sends[c], "poll") = Len(statuses[c])
              /\ Count(sends[c], "fetch") = 0
              /\ pollSleeps[c] = Len(statuses[c]) - 1
              /\ Last(statuses[c]) = "deleted" =>
                    result[c] = Raise("ApiError", Canceled)
              /\ (Last(statuses[c]) = "error" /\ resp[c].error_message # Missing) =>
                    result[c] = Raise("ApiError", resp[c].error_message)

\* 'deleted' is polled after MaxPolls sleeps
C8_Witness ==
    \E c \in Calls :
        /\ Len(statuses[c]) = MaxPolls + 1
        /\ Last(statuses[c]) = "deleted"
        /\ result[c].kind = "ApiError"

\* C9: the call has its session from its entry to its end, and when it has
\* ended, on any path, the session is closed and no response is open.
C9_Released ==
    \A c \in Calls :
        /\ pc[c] = "idle" => (session[c] = "none" /\ openResp[c] = 0)
        /\ pc[c] \in {"await", "backoff", "pollsleep", "yielded"} =>
              session[c] = "open"
        /\ pc[c] = "done" => (session[c] = "closed" /\ openResp[c] = 0)

\* a poll of an escalated call has run out of retries
C9_Witness ==
    \E c \in Calls :
        /\ pc[c] = "done" /\ phase[c] = "poll"
        /\ result[c].kind = "Exception"
        /\ answered[c] = httpMaxRetryCount + 1
        /\ pollSleeps[c] >= 1

C10_Inv(c) ==
    (result[c].kind = "ok" /\ phase[c] = "direct" /\ answered[c] = 0) =>
        /\ sends[c] = << "direct" >>
        /\ Len(sendLog[c]) = 1
        /\ delays[c] = 0
        /\ pollSleeps[c] = 0
        /\ statuses[c] = << >>
        /\ runs[c] = 0

C10_Act(c) ==
    (Answered(c) /\ resp'[c].status \in 200..299) =>
        /\ pc'[c] # "backoff"
        /\ IF phase[c] \in {"direct", "fetch"}
           THEN /\ pc'[c] = "yielded"
                /\ result'[c] = Ok(req[c])
                /\ sendLog'[c] = sendLog[c]
                /\ delays'[c] = delays[c]
           ELSE (pc'[c] = "await") => req'[c].retryCount = 0

\* C10: a 2xx response is returned without a retry and without a delay; a
\* direct send that succeeds on its first request yields the result after
\* one request, with no retry, no poll and no submit.
C10_DirectSuccess ==
    /\ [](\A c \in Calls : C10_Inv(c))
    /\ [][\A c \in Calls : C10_Act(c)]_vars

\* the direct send has succeeded on its first request, with status 299
C10_Witness ==
    \E c \in Calls :
        /\ pc[c] = "done" /\ phase[c] = "direct"
        /\ result[c].kind = "ok" /\ resp[c].status = 299
        /\ answered[c] = 0

\* the response is the last one of its send and not a success
FinalFailure(c) ==
    /\ Answered(c)
    /\ resp'[c].status \notin 200..299
    /\ ~(Transient(resp'[c].status) /\ req[c].retryCount < httpMaxRetryCount)

\* the exception _fetch raises for the response resp'[c]
FetchError(c) ==
    IF resp'[c].status # 400
    THEN Raise("Exception", "API returned unexpected error")
    ELSE IF resp'[c].error_message = Missing
    THEN Raise("KeyError", "error_message")
    ELSE Raise("ApiError", resp'[c].error_message)

C11_Act(c) ==
    /\ Answered(c) =>
          ((result'[c].kind = "Exception") <=>
              /\ resp'[c].status \notin 200..299
              /\ resp'[c].status # 400
              /\ \/ ~Transient(resp'[c].status)
                 \/ req[c].retryCount = httpMaxRetryCount)
    /\ (Stepped(c) /\ result'[c].kind = "Exception") =>
          /\ pc'[c] = "done"
          /\ result'[c].message # Sentinel
          /\ runs'[c] = runs[c]
          /\ sends'[c] = sends[c]
          /\ sendLog'[c] = sendLog[c]
    /\ (Answered(c) /\ resp'[c].status \notin 200..299 /\ resp'[c].status # 400
            /\ ~Transient(resp'[c].status)) =>
          /\ result'[c].kind = "Exception"
          /\ delays'[c] = delays[c]

\* C11: a send fails with the generic Exception exactly when its last
\* response is not 2xx, not 400, and is either not retryable or answered
\* to attempt httpMaxRetryCount; the Exception is no ApiError, starts no run
\* on the job queue, and a status that is not retryable fails the send on
\* that response without a retry.
C11_TransportError ==
    [][\A c \in Calls : C11_Act(c)]_vars

\* a 404 answered to a retry
C11_Witness ==
    \E c \in Calls :
        /\ pc[c] = "done" /\ result[c].kind = "Exception"
        /\ resp[c].status = 404 /\ answered[c] >= 1

C13_Inv(c) ==
    (pc[c] = "done" /\ result[c].kind # "ok") =>
        /\ phase[c] = "submit" => Count(sends[c], "poll") = 0
        /\ phase[c] \in {"submit", "poll"} => Count(sends[c], "fetch") = 0
        /\ runs[c] = Count(sends[c], "submit")

C13_Act(c) ==
    /\ Ended(c)
    /\ (phase[c] \in {"submit", "poll", "fetch"} /\ FinalFailure(c)) =>
          /\ pc'[c] = "done"
          /\ result'[c] = FetchError(c)
          /\ sends'[c] = sends[c]
          /\ sendLog'[c] = sendLog[c]
          /\ runs'[c] = runs[c]
          /\ pollSleeps'[c] = pollSleeps[c]

\* C13: an error of _fetch in the submit, a poll or the fetch of a run ends
\* the call with that error: no poll follows a failed submit, no poll and
\* no fetch follow a failed poll, and an ApiError raised in the run, the
\* sentinel included, starts no other run.
C13_RunFailure ==
    /\ [](\A c \in Calls : C13_Inv(c))
    /\ [][\A c \in Calls : C13_Act(c)]_vars

\* the submit has failed with the sentinel ApiError
C13_Witness ==
    \E c \in Calls :
        /\ pc[c] = "done" /\ phase[c] = "submit" /\ runs[c] = 1
        /\ result[c] = Raise("ApiError", Sentinel)

\* C14: the retry count of every request is between 0 and
\* httpMaxRetryCount, in every send of every phase.
C14_RetryCountBound ==
    \A c \in Calls :
        /\ req[c].retryCount \in 0..httpMaxRetryCount
        /\ \A i \in DOMAIN sendLog[c] :
              sendLog[c][i].retryCount \in 0..httpMaxRetryCount

\* a poll is at its last attempt
C14_Witness ==
    \E c \in Calls :
        /\ pc[c] = "await" /\ phase[c] = "poll"
        /\ req[c].retryCount = httpMaxRetryCount

\* C15: a resolution holds at most one response open at a time: the
\* response of a failed attempt is released before the request of the next
\* attempt, the response of a poll before the next poll.
C15_AtMostOneOpen ==
    \A c \in Calls : openResp[c] <= 1

C18_Act(c) ==
    (phase[c] = "submit" /\ Answered(c) /\ resp'[c].status \in 200..299
        /\ resp'[c].id = Missing) =>
        /\ pc'[c] = "done"
        /\ result'[c] = Raise("KeyError", "id")
        /\ sends'[c] = sends[c]
        /\ sendLog'[c] = sendLog[c]
        /\ runs'[c] = runs[c]
        /\ jobId'[c] = Missing

\* C18: a 2xx submit response without the id field ends the call with a
\* KeyError, which is no ApiError; no poll, no fetch, no retry and no
\* second submit follow.
C18_MissingId ==
    [][\A c \in Calls : C18_Act(c) /\ Ended(c)]_vars

\* the submit was answered 2xx without an id, on a retry
C18_Witness ==
    \E c \in Calls :
        /\ pc[c] = "done" /\ phase[c] = "submit"
        /\ result[c] = Raise("KeyError", "id")
        /\ answered[c] >= 1

\* C20: when a call of query has ended, the params dict of the caller is
\* what it was when query was entered.
C20_ParamsUnchanged ==
    \A c \in Calls : pc[c] = "done" => heap[pobj[c]] = orig[c]

C19_Inv(c) ==
    /\ sendLog[c] # << >> => sendLog[c][1].retryCount = 0
    /\ spent[c] => Len(sends[c]) >= 2

C19_Act(c) ==
    /\ sends'[c] # sends[c] =>
          /\ req'[c].retryCount = 0
          /\ sendLog'[c] = << req'[c] >>
          /\ delays'[c] = 0
    /\ (spent[c] /\ Answered(c) /\ Transient(resp'[c].status)
            /\ req[c].retryCount < httpMaxRetryCount) =>
          pc'[c] = "backoff"

\* C19: every send of a resolution (direct, submit, each poll, fetch)
\* starts at attempt 0 and is retried while its own attempt number is
\* below httpMaxRetryCount, also after an earlier send has used all its
\* retries; so a resolution may issue more than httpMaxRetryCount + 1
\* requests.
C19_BudgetPerSend ==
    /\ [](\A c \in Calls : C19_Inv(c))
    /\ [][\A c \in Calls : C19_Act(c)]_vars

\* the fetch succeeds on its last attempt after an earlier send did so:
\* at least 2 * (httpMaxRetryCount + 1) requests in the resolution
C19_Witness ==
    \E c \in Calls :
        /\ spent[c]
        /\ pc[c] = "yielded" /\ phase[c] = "fetch"
        /\ Len(sendLog[c]) = httpMaxRetryCount + 1

\* the resolution of call c has ended: a response is yielded or an
\* exception has left query
Resolved(c) == pc[c] \in {"yielded", "done"}

C16_Act(c) ==
    /\ (phase[c] = "poll" /\ Answered(c) /\ resp'[c].status \in 200..299
            /\ resp'[c].jstatus \notin Terminal \cup {Missing}) =>
          /\ pc'[c] = "pollsleep"
          /\ result'[c] = result[c]
    /\ (pc[c] = "pollsleep" /\ Stepped(c)) =>
          /\ pc'[c] = "await" /\ phase'[c] = "poll"
          /\ sends'[c] = Append(sends[c], "poll")

\* C16: while the polls succeed with a non-terminal status the run sleeps
\* and polls again and does not end; under fair scheduling a sleeping run
\* polls again, and once a terminal status has been polled the resolution
\* ends, with the fetch result or an error.
C16_Polling ==
    /\ [][\A c \in Calls : C16_Act(c)]_vars
    /\ \A c \in OneCall : (pc[c] = "pollsleep") ~> (pc[c] = "await")
    /\ \A c \in OneCall :
          (statuses[c] # << >> /\ Last(statuses[c]) \in Terminal) ~> Resolved(c)

\* 'finished' was polled after MaxPolls sleeps and the fetch, retried, has
\* yielded its response
C16_Witness ==
    \E c \in Calls :
        /\ pc[c] = "yielded" /\ pollSleeps[c] = MaxPolls
        /\ Last(statuses[c]) = "finished"
        /\ answered[c] >= 1

\* everything call c reads or writes
Own(c) ==
    << pc[c], phase[c], heap[pobj[c]], orig[c], session[c], openResp[c],
       req[c], resp[c], jobId[c], result[c], sends[c], sendLog[c], delays[c],
       pollSleeps[c], statuses[c], runs[c], answered[c], spent[c] >>

\* call c is in one of its sleeps
Sleeping(c) == pc[c] \in {"backoff", "pollsleep"}

C12_Inv(c, d) ==
    (c # d /\ Sleeping(c)) =>
        /\ pc[d] = "idle" => ENABLED Query(d)
        /\ pc[d] = "await" => ENABLED Responds(d)
        /\ pc[d] = "backoff" => ENABLED Retry(d)
        /\ pc[d] = "pollsleep" => ENABLED PollAgain(d)
        /\ pc[d] = "yielded" => ENABLED Exit(d)

C12_Act(c, d) ==
    (c # d /\ Stepped(d)) => Own(c)' = Own(c)

C17_Inv(c) ==
    /\ phase[c] \in {"none", "direct", "submit"} => jobId[c] = Missing
    /\ phase[c] = "poll" =>
          /\ jobId[c] \in JobIds
          /\ \A i \in DOMAIN sendLog[c] : sendLog[c][i].url = statusUrl(jobId[c])
    /\ phase[c] = "fetch" =>
          /\ jobId[c] \in JobIds
          /\ \A i \in DOMAIN sendLog[c] : sendLog[c][i].url = resultUrl(jobId[c])
    /\ \A d \in Calls :
          (phase[c] \in {"poll", "fetch"} /\ jobId[d] # jobId[c]) =>
              req[c].url.key # jobId[d]

C17_Act(c) ==
    /\ jobId'[c] # jobId[c] =>
          /\ phase[c] = "submit" /\ Answered(c)
          /\ jobId[c] = Missing
          /\ jobId'[c] = resp'[c].id

\* C17: every status request and the result request of a run carry the job
\* id of the submit response of that run; the id is set once and does not
\* change; a run never polls or fetches with the different id of another
\* run.
C17_JobHandle ==
    /\ [](\A c \in Calls : C17_Inv(c))
    /\ [][\A c \in Calls : C17_Act(c)]_vars

\* two runs with different job ids, one polling again, one fetching
C17_Witness ==
    \E c, d \in Calls :
        /\ jobId[c] \in JobIds /\ jobId[d] \in JobIds /\ jobId[c] # jobId[d]
        /\ phase[c] = "poll" /\ pollSleeps[c] >= 1 /\ pc[c] = "await"
        /\ phase[d] = "fetch" /\ pc[d] = "await"

TypeOK ==
    /\ pc \in [Calls -> {"unused", "idle", "await", "backoff", "pollsleep", "yielded", "done"}]
    /\ phase \in [Calls -> {"none", "direct", "submit", "poll", "fetch"}]
    /\ heap \in [Objs -> ParamsSet]
    /\ session \in [Calls -> {"none", "open", "closed"}]
    /\ openResp \in [Calls -> Nat]
    /\ runs \in [Calls -> Nat]

====
